---- MODULE Spec2Model ----
(***************************************************************************)
(* Model of the read-it-later library: the backend ingestion handler       *)
(* add_link (fetch, extract, categorize, insert), the Home page that       *)
(* submits links, the ReadPage reader view that sanitizes stored content   *)
(* before rendering it, and the sanitizer as a pure function over a        *)
(* bounded universe of HTML fragments.                                     *)
(***************************************************************************)
EXTENDS Integers, Sequences, FiniteSets, TLC

\* ------------------------------------------------------------------ bounds
\* Most element nodes in one HTML fragment (whole tree).
MaxNodes == 2
\* Most attributes on one element.
MaxAttrs == 2

\* ------------------------------------------------------------ HTML values
\* An HTML fragment is a sequence of element nodes; a node has a tag, a set
\* of attributes with distinct names, and a fragment of child nodes.
Attr(n, v) == [name |-> n, value |-> v]

Elem(t, as, ks) == [tag |-> t, attrs |-> as, kids |-> ks]

AttrUniverse ==
    { Attr("src", "x"),
      Attr("href", "https://example.com/"),
      Attr("href", "javascript:alert(1)"),
      Attr("onerror", "alert(1)") }

DistinctNames(S) == \A a, b \in S : a.name = b.name => a = b

AttrSets ==
    { S \in SUBSET AttrUniverse : Cardinality(S) <= MaxAttrs /\ DistinctNames(S) }

TagUniverse == {"a", "img", "script"}

\* Tags whose elements carry child nodes in the fragments drawn here.
ContainerTags == {"a"}

\* The number of element nodes of a fragment, at any depth.
RECURSIVE Size(_)
Size(html) ==
    IF html = <<>> THEN 0
    ELSE 1 + Size(Head(html).kids) + Size(Tail(html))

\* The fragment with a leaf added as the last node at depth d of its right spine.
RECURSIVE AddLeaf(_, _, _)
AddLeaf(html, d, leaf) ==
    IF d = 0 THEN Append(html, leaf)
    ELSE LET last == html[Len(html)]
         IN  [html EXCEPT ![Len(html)] =
                 Elem(last.tag, last.attrs, AddLeaf(last.kids, d - 1, leaf))]

\* Whether a leaf can be added at depth d: the right spine reaches that depth
\* through container elements.
RECURSIVE CanAddLeaf(_, _)
CanAddLeaf(html, d) ==
    \/ d = 0
    \/ /\ html # <<>>
       /\ html[Len(html)].tag \in ContainerTags
       /\ CanAddLeaf(html[Len(html)].kids, d - 1)

\* ------------------------------------------------------------- sanitizer
\* sanitize(untrustedHtml) -> safeHtml: allow-list of tags and of attributes
\* per tag, event handlers always stripped, only http/https/mailto (or
\* scheme-less) URIs in href/src, script-like elements dropped wholesale.
AllowedTags ==
    {"p", "h1", "h2", "h3", "ul", "ol", "li", "em", "strong", "a", "img",
     "blockquote", "table", "tr", "td"}

RemovedTags == {"script", "iframe", "object", "embed", "form"}

AllowedAttrs(tag) ==
    CASE tag = "a"   -> {"href"}
      [] tag = "img" -> {"src", "alt"}
      [] OTHER       -> {}

IsEventHandler(name) == name \in {"onerror", "onclick", "onload"}

\* The scheme a URI value resolves to; "" for a scheme-less (relative) one.
UriScheme(value) ==
    CASE value = "https://example.com/"  -> "https"
      [] value = "javascript:alert(1)"   -> "javascript"
      [] OTHER                           -> ""

SafeSchemes == {"", "http", "https", "mailto"}

\* An attribute filter that does not look at URI schemes.
KeepAttrAnyScheme(tag, a) ==
    /\ ~IsEventHandler(a.name)
    /\ a.name \in AllowedAttrs(tag)

KeepAttr(tag, a) ==
    /\ ~IsEventHandler(a.name)
    /\ a.name \in AllowedAttrs(tag)
    /\ (a.name \in {"href", "src"} => UriScheme(a.value) \in SafeSchemes)

\* A pass that stops at the first attribute it removes.
sanitizeAttrsOnePass(tag, as) ==
    IF \A a \in as : KeepAttr(tag, a) THEN as
    ELSE as \ { CHOOSE a \in as : ~KeepAttr(tag, a) }

sanitizeAttrs(tag, as) == { a \in as : KeepAttr(tag, a) }

RECURSIVE sanitize(_)
sanitize(html) ==
    IF html = <<>> THEN <<>>
    ELSE LET node == Head(html)
             rest == sanitize(Tail(html))
         IN  IF node.tag \in AllowedTags /\ node.tag \notin RemovedTags
             THEN <<Elem(node.tag, sanitizeAttrs(node.tag, node.attrs),
                         sanitize(node.kids))>> \o rest
             ELSE rest

\* All element nodes of a fragment, at any depth.
RECURSIVE NodesOf(_)
NodesOf(html) ==
    IF html = <<>> THEN {}
    ELSE {Head(html)} \cup NodesOf(Head(html).kids) \cup NodesOf(Tail(html))

HasScript(html) == \E n \in NodesOf(html) : n.tag = "script"

HasEventHandler(html) ==
    \E n \in NodesOf(html) : \E a \in n.attrs : IsEventHandler(a.name)

HasJavascriptUri(html) ==
    \E n \in NodesOf(html) : \E a \in n.attrs :
        a.name \in {"href", "src"} /\ UriScheme(a.value) = "javascript"

\* ----------------------------------------------------------------- bounds
\* Most POST /links requests (ingestions) in one behaviour.
MaxReqs == 2
\* Most route changes of the reader view in one behaviour.
MaxNav == 2
\* Most links in a list handed to the category filter.
MaxLinks == 3

\* The value of a variable that holds nothing (None, null).
NoneValue == "<none>"

\* ------------------------------------------------------------ the web
\* What the document at a URL can look like to the extractor: an empty body,
\* or a document with its title element (absent, empty, or with text) and its
\* article region (none, or an untrusted HTML fragment).
ImgOnerror ==
    <<Elem("img", {Attr("src", "x"), Attr("onerror", "alert(1)")}, <<>>)>>

LinkAndScript ==
    <<Elem("a", {Attr("href", "javascript:alert(1)")},
           <<Elem("img", {Attr("src", "x")}, <<>>)>>),
      Elem("script", {}, <<>>)>>

Page(e, t, h, a) == [empty |-> e, titleEl |-> t, hasArticle |-> h, article |-> a]

Pages ==
    { Page(FALSE, "Example Domain", TRUE, ImgOnerror),
      Page(FALSE, "absent", FALSE, <<>>),
      Page(FALSE, "empty", TRUE, LinkAndScript),
      Page(TRUE, "absent", FALSE, <<>>) }

NoPage == Page(FALSE, "", FALSE, <<>>)

\* requests.get(link.url) followed by page.raise_for_status(): a page, or an
\* exception for a non-success status, a transport failure or a timeout.
FetchFailures ==
    { [kind |-> "status", code |-> 404],
      [kind |-> "status", code |-> 500],
      [kind |-> "transport", code |-> 0],
      [kind |-> "timeout", code |-> 0] }

NoFailure == [kind |-> "none", code |-> 0]

\* The exception Document(page.text) ends in when the body is empty: the
\* parser has no document to build.
ParseFailure == [kind |-> "parse", code |-> 0]

ParseErrorDetail == "Document is empty"

\* str(e) of the exception the fetch raised, the detail of the HTTP 500.
FetchErrorDetail(f) ==
    CASE f.kind = "status" /\ f.code = 404 -> "404 Client Error: Not Found for url"
      [] f.kind = "status" /\ f.code = 500 -> "500 Server Error: Internal Server Error for url"
      [] f.kind = "transport"              -> "HTTPSConnectionPool: Max retries exceeded with url"
      [] f.kind = "timeout"                -> "HTTPSConnectionPool: Read timed out"

FetchErrorDetails == { FetchErrorDetail(f) : f \in FetchFailures }

Urls == {"https://example.com/a"}

\* Strings that LinkCreate (url: str) accepts and that are no URL: the empty
\* string and one without a scheme.
BadUrls == {"", "not-a-url"}

\* The exception requests.get ends in when it is called with such a string.
InvalidUrlFailure == [kind |-> "invalid-url", code |-> 0]

InvalidUrlDetail == "Invalid URL: No scheme supplied"

\* ------------------------------------------------------------ extraction
\* A title lookup that yields None for an empty title element.
DocTitleNoneOnEmpty(page) ==
    CASE page.titleEl = "absent" -> "[no-title]"
      [] page.titleEl = "empty"  -> NoneValue
      [] OTHER                   -> page.titleEl

\* doc.title(): the text of the title element, or the library's placeholder
\* when the element is absent or empty.
DocTitle(page) ==
    IF page.titleEl \in {"absent", "empty"} THEN "[no-title]" ELSE page.titleEl

\* The fragment without its script elements, at any depth.
RECURSIVE RemoveScripts(_)
RemoveScripts(html) ==
    IF html = <<>> THEN <<>>
    ELSE LET node == Head(html)
         IN  IF node.tag = "script" THEN RemoveScripts(Tail(html))
             ELSE <<Elem(node.tag, node.attrs, RemoveScripts(node.kids))>>
                      \o RemoveScripts(Tail(html))

\* doc.summary(html_partial=True): the article region as an HTML fragment
\* cleaned of script elements, empty when the document has none.
DocSummary(page) ==
    IF page.hasArticle THEN RemoveScripts(page.article) ELSE <<>>

\* ---------------------------------------------------------- categorizer
\* The list of categories of the filter UI; "All" is the filter that shows
\* every link, the other eight are the closed set of labels.
CATEGORIES ==
    <<"All", "Technology", "History", "Health & Wellness", "Science",
      "Business & Finance", "Arts & Culture", "Productivity", "Other">>

ClosedCategories == { CATEGORIES[i] : i \in 2..Len(CATEGORIES) }

\* What one call of the classification backend can produce.
BackendOutcomes ==
    { [kind |-> "label", label |-> "Technology"],
      [kind |-> "label", label |-> "Sports"],
      [kind |-> "label", label |-> "All"],
      [kind |-> "unreachable", label |-> ""],
      [kind |-> "timeout", label |-> ""] }

NoOutcome == [kind |-> "none", label |-> ""]

\* A classify that hands the backend's label on without validating it.
classifyUnvalidated(outcome) ==
    IF outcome.kind = "label" THEN outcome.label ELSE "Other"

\* classify(title, content) -> Category: the backend's label when it is one of
\* the closed set, Other otherwise; never an error.
classify(outcome) ==
    IF outcome.kind = "label" /\ outcome.label \in ClosedCategories
    THEN outcome.label
    ELSE "Other"

\* -------------------------------------------------------------- variables
VARIABLES
    reqs,       \* the POST /links requests: each ingestion's position and values
    db,         \* the links table, in insertion order
    clock,      \* now() of the database
    links,      \* Home: the displayed list
    newLinkUrl, \* Home: the URL input
    isLoading,  \* Home: the form is disabled
    toasts,     \* Home: the toasts shown for each submission
    warned,     \* Home: the empty-input warning was shown
    activeFilter, \* Home: the selected category filter
    homeGet,    \* Home: the mount-time GET /links
    rpId,       \* ReadPage: the route id (0: none)
    rpLink,     \* ReadPage: link
    rpLoading,  \* ReadPage: isLoading
    rpError,    \* ReadPage: error
    rpGets,     \* ReadPage: outstanding GET /links/{id}, by id
    rpCur,      \* ReadPage: the GET of the latest route change (none, pending, ok, failed)
    navs,       \* ReadPage: route changes so far
    surface,    \* ReadPage: what the last render put on the page
    sanIn,      \* sanitizer harness: the input fragment
    sanOut      \* sanitizer harness: the output, once computed

backendVars == <<reqs, db, clock>>
homeVars == <<links, newLinkUrl, isLoading, toasts, warned, activeFilter, activeFilter, homeGet>>
readVars == <<rpId, rpLink, rpLoading, rpError, rpGets, rpCur, navs, surface>>
sanVars == <<sanIn, sanOut>>
vars == <<backendVars, homeVars, readVars, sanVars>>

ReqIds == 1..MaxReqs

\* The content of a request that has not extracted any.
NoContent == <<Elem("#unset", {}, <<>>)>>

NoLink == [id |-> 0, created_at |-> 0, url |-> "", title |-> "", content |-> <<>>,
           category |-> ""]

IdleReq ==
    [pc |-> "Idle", origin |-> "", url |-> "", captured |-> <<>>,
     page |-> NoPage, title |-> NoneValue, content |-> NoContent, extracted |-> FALSE,
     category |-> NoneValue, outcome |-> NoOutcome, failure |-> NoFailure,
     fetches |-> 0, classifyCalls |-> 0, inserts |-> 0, resp |-> <<>>,
     settled |-> "no"]

\* ----------------------------------------------------------------- render
\* A render that puts link.content itself on the page.
ReadPageRenderRaw(loading, error, link) ==
    IF loading THEN [view |-> "loading", html |-> <<>>, id |-> 0]
    ELSE IF error # NoneValue THEN [view |-> "error", html |-> <<>>, id |-> 0]
    ELSE IF link = NoLink THEN [view |-> "notfound", html |-> <<>>, id |-> 0]
    ELSE [view |-> "article", html |-> link.content, id |-> link.id]

\* ReadPage's render: loading, then error, then "not found", else the article
\* with the sanitized content as the HTML of the content element.
ReadPageRender(loading, error, link) ==
    IF loading THEN [view |-> "loading", html |-> <<>>, id |-> 0]
    ELSE IF error # NoneValue THEN [view |-> "error", html |-> <<>>, id |-> 0]
    ELSE IF link = NoLink THEN [view |-> "notfound", html |-> <<>>, id |-> 0]
    ELSE [view |-> "article", html |-> sanitize(link.content), id |-> link.id]

\* ------------------------------------------------------------------- init
Init ==
    /\ reqs = [i \in ReqIds |-> IdleReq]
    /\ db = <<>>
    /\ clock = 1
    /\ links = <<>>
    /\ newLinkUrl = ""
    /\ isLoading = FALSE
    /\ toasts = [i \in ReqIds |-> <<>>]
    /\ warned = FALSE
    /\ activeFilter = "All"
    /\ homeGet = [stage |-> "pending", data |-> <<>>]
    /\ rpId = 0
    /\ rpLink = NoLink
    /\ rpLoading = TRUE
    /\ rpError = NoneValue
    /\ rpGets = [i \in ReqIds |-> 0]
    /\ rpCur = "none"
    /\ navs = 0
    /\ surface = ReadPageRender(TRUE, NoneValue, NoLink)
    /\ sanIn = <<>>
    /\ sanOut = [done |-> FALSE, html |-> <<>>]

\* The next free request slot.
NextReq(i) ==
    /\ reqs[i].pc = "Idle"
    /\ \A j \in ReqIds : j < i => reqs[j].pc # "Idle"

\* ---------------------------------------------------------------- backend
\* POST /links from a client other than the Home page.
post_links(i, u) ==
    /\ NextReq(i)
    /\ reqs' = [reqs EXCEPT ![i] = [IdleReq EXCEPT !.pc = "Submitted",
                                      !.origin = "api", !.url = u]]
    /\ UNCHANGED <<db, clock, homeVars, readVars, sanVars>>

\* The HTTP 500 add_link answers with when a stage raised.
Http500(detail) == [status |-> 500, detail |-> detail, body |-> NoLink]

Http200(row) == [status |-> 200, detail |-> "", body |-> row]

\* A fetch without raise_for_status: the body of an error response is parsed
\* like a page.
add_link_fetch_nostatus(i) ==
    /\ reqs[i].pc = "Submitted"
    /\ \/ \E p \in Pages :
            reqs' = [reqs EXCEPT ![i].pc = "Fetched", ![i].page = p,
                                 ![i].fetches = @ + 1]
       \/ \E f \in FetchFailures :
            IF f.kind = "status"
            THEN reqs' = [reqs EXCEPT ![i].pc = "Fetched", ![i].failure = f,
                                      ![i].page = Page(FALSE, "absent", FALSE, <<>>),
                                      ![i].fetches = @ + 1]
            ELSE reqs' = [reqs EXCEPT ![i].pc = "Failed", ![i].failure = f,
                                      ![i].fetches = @ + 1,
                                      ![i].resp = Append(@, Http500(FetchErrorDetail(f)))]
    /\ UNCHANGED <<db, clock, homeVars, readVars, sanVars>>

\* A fetch that puts a failed request back in line for one more attempt.
add_link_fetch_retry(i) ==
    /\ \/ /\ reqs[i].pc = "Submitted"
          /\ \/ \E p \in Pages :
                  reqs' = [reqs EXCEPT ![i].pc = "Fetched", ![i].page = p,
                                       ![i].fetches = @ + 1]
             \/ \E f \in FetchFailures :
                  reqs' = [reqs EXCEPT ![i].pc = "Failed", ![i].failure = f,
                                       ![i].fetches = @ + 1,
                                       ![i].resp = Append(@, Http500(FetchErrorDetail(f)))]
       \/ /\ reqs[i].pc = "Failed" /\ reqs[i].fetches < 2
          /\ reqs' = [reqs EXCEPT ![i].pc = "Submitted", ![i].failure = NoFailure,
                                  ![i].resp = <<>>]
    /\ UNCHANGED <<db, clock, homeVars, readVars, sanVars>>

\* A fetch that makes a second attempt when the first one failed.
add_link_fetch_twice(i) ==
    /\ reqs[i].pc = "Submitted"
    /\ \/ \E p \in Pages :
            reqs' = [reqs EXCEPT ![i].pc = "Fetched", ![i].page = p,
                                 ![i].fetches = @ + 1]
       \/ \E p \in Pages :
            reqs' = [reqs EXCEPT ![i].pc = "Fetched", ![i].page = p,
                                 ![i].fetches = @ + 2]
       \/ \E f \in FetchFailures :
            reqs' = [reqs EXCEPT ![i].pc = "Failed", ![i].failure = f,
                                 ![i].fetches = @ + 2,
                                 ![i].resp = Append(@, Http500(FetchErrorDetail(f)))]
    /\ UNCHANGED <<db, clock, homeVars, readVars, sanVars>>

\* add_link: requests.get and raise_for_status, called with link.url as it
\* came in; fetches counts the calls of requests.get.
add_link_fetch(i) ==
    /\ reqs[i].pc = "Submitted"
    /\ IF reqs[i].url \in BadUrls
       THEN reqs' = [reqs EXCEPT ![i].pc = "Failed", ![i].failure = InvalidUrlFailure,
                                 ![i].fetches = @ + 1,
                                 ![i].resp = Append(@, Http500(InvalidUrlDetail))]
       ELSE \/ \E p \in Pages :
                 reqs' = [reqs EXCEPT ![i].pc = "Fetched", ![i].page = p,
                                      ![i].fetches = @ + 1]
            \/ \E f \in FetchFailures :
                 reqs' = [reqs EXCEPT ![i].pc = "Failed", ![i].failure = f,
                                      ![i].fetches = @ + 1,
                                      ![i].resp = Append(@, Http500(FetchErrorDetail(f)))]
    /\ UNCHANGED <<db, clock, homeVars, readVars, sanVars>>

\* add_link: the readability block (title and main content). It sits in the
\* handler's try like the fetch: an exception of the parser is answered with
\* HTTP 500 by the same except.
add_link_extract(i) ==
    /\ reqs[i].pc = "Fetched"
    /\ IF reqs[i].page.empty
       THEN reqs' = [reqs EXCEPT ![i].pc = "Failed", ![i].failure = ParseFailure,
                                 ![i].resp = Append(@, Http500(ParseErrorDetail))]
       ELSE reqs' = [reqs EXCEPT ![i].pc = "Extracted",
                                 ![i].title = DocTitle(reqs[i].page),
                                 ![i].content = DocSummary(reqs[i].page),
                                 ![i].extracted = TRUE]
    /\ UNCHANGED <<db, clock, homeVars, readVars, sanVars>>

\* A categorization that calls the backend again when it got no answer.
add_link_categorize_retry(i) ==
    /\ reqs[i].pc = "Extracted"
    /\ \E o \in BackendOutcomes :
            reqs' = [reqs EXCEPT ![i].pc = "Categorized",
                                 ![i].outcome = o,
                                 ![i].classifyCalls =
                                     IF o.kind = "label" THEN @ + 1 ELSE @ + 2,
                                 ![i].category = classify(o)]
    /\ UNCHANGED <<db, clock, homeVars, readVars, sanVars>>

\* add_link: one call of classify, whose result is always a category.
add_link_categorize(i) ==
    /\ reqs[i].pc = "Extracted"
    /\ \E o \in BackendOutcomes :
            reqs' = [reqs EXCEPT ![i].pc = "Categorized",
                                 ![i].outcome = o,
                                 ![i].classifyCalls = @ + 1,
                                 ![i].category = classify(o)]
    /\ UNCHANGED <<db, clock, homeVars, readVars, sanVars>>

\* The row the table gives back for an insert: id and created_at are the
\* table's defaults.
NewRow(r) ==
    [id |-> Len(db) + 1, created_at |-> clock, url |-> r.url, title |-> r.title,
     content |-> r.content, category |-> r.category]

\* An insert that gives back the row already stored for the url, if any.
add_link_insert_dedup(i) ==
    /\ reqs[i].pc = "Categorized"
    /\ IF \E k \in 1..Len(db) : db[k].url = reqs[i].url
       THEN /\ UNCHANGED <<db, clock>>
            /\ reqs' = [reqs EXCEPT ![i].pc = "Persisted",
                                    ![i].page = NoPage, ![i].title = NoneValue,
                                    ![i].content = NoContent, ![i].category = NoneValue,
                                    ![i].outcome = NoOutcome,
                                    ![i].inserts = @ + 1,
                                    ![i].resp = Append(@, Http200(
                                        db[CHOOSE k \in 1..Len(db) : db[k].url = reqs[i].url]))]
       ELSE /\ db' = Append(db, NewRow(reqs[i]))
            /\ clock' = clock + 1
            /\ reqs' = [reqs EXCEPT ![i].pc = "Persisted",
                                    ![i].page = NoPage, ![i].title = NoneValue,
                                    ![i].content = NoContent, ![i].category = NoneValue,
                                    ![i].outcome = NoOutcome,
                                    ![i].inserts = @ + 1,
                                    ![i].resp = Append(@, Http200(NewRow(reqs[i])))]
    /\ UNCHANGED <<homeVars, readVars, sanVars>>

\* add_link: the insert, and the row returned to the caller; the handler's
\* locals end with it.
add_link_insert(i) ==
    /\ reqs[i].pc = "Categorized"
    /\ db' = Append(db, NewRow(reqs[i]))
    /\ clock' = clock + 1
    /\ reqs' = [reqs EXCEPT ![i].pc = "Persisted",
                            ![i].page = NoPage, ![i].title = NoneValue,
                            ![i].content = NoContent, ![i].category = NoneValue,
                            ![i].outcome = NoOutcome,
                            ![i].inserts = @ + 1,
                            ![i].resp = Append(@, Http200(NewRow(reqs[i])))]
    /\ UNCHANGED <<homeVars, readVars, sanVars>>

\* A listing in the order of the table.
get_links_unordered(rows) == rows

\* GET /links: every row, ordered by created_at descending.
RECURSIVE get_links(_)
get_links(rows) ==
    IF rows = <<>> THEN <<>>
    ELSE LET k == CHOOSE j \in 1..Len(rows) :
                    \A m \in 1..Len(rows) :
                        \/ rows[j].created_at > rows[m].created_at
                        \/ rows[j].created_at = rows[m].created_at /\ j <= m
             others == [m \in 1..(Len(rows) - 1) |->
                            IF m < k THEN rows[m] ELSE rows[m + 1]]
         IN  <<rows[k]>> \o get_links(others)

\* GET /links handled by the backend for the Home page's mount-time request.
get_links_handle ==
    /\ homeGet.stage = "pending"
    /\ homeGet' = [stage |-> "answered", data |-> get_links(db)]
    /\ UNCHANGED <<backendVars, links, newLinkUrl, isLoading, toasts, warned, activeFilter, readVars, sanVars>>

\* ------------------------------------------------------------------- Home
\* fetchLinks: the response arrives, setLinks(response.data).
fetchLinks_resolve ==
    /\ homeGet.stage = "answered"
    /\ links' = homeGet.data
    /\ homeGet' = [homeGet EXCEPT !.stage = "done"]
    /\ UNCHANGED <<backendVars, newLinkUrl, isLoading, toasts, warned, activeFilter, readVars, sanVars>>

\* fetchLinks: the request fails, a toast and nothing else.
fetchLinks_reject ==
    /\ homeGet.stage \in {"pending", "answered"}
    /\ homeGet' = [stage |-> "failed", data |-> <<>>]
    /\ UNCHANGED <<backendVars, links, newLinkUrl, isLoading, toasts, warned, activeFilter, readVars, sanVars>>

\* onChange of the URL input, which is disabled while isLoading.
setNewLinkUrl(u) ==
    /\ ~isLoading
    /\ u # newLinkUrl
    /\ newLinkUrl' = u
    /\ UNCHANGED <<backendVars, links, isLoading, toasts, warned, activeFilter, homeGet, readVars, sanVars>>

\* handleSubmit with an empty input: a warning toast, no request.
handleSubmit_empty ==
    /\ ~isLoading
    /\ newLinkUrl = ""
    /\ warned' = TRUE
    /\ UNCHANGED <<backendVars, links, newLinkUrl, isLoading, toasts, activeFilter, homeGet, readVars, sanVars>>

\* A submit that the form accepts while a request is in flight.
handleSubmit_unguarded(i) ==
    /\ NextReq(i)
    /\ newLinkUrl # ""
    /\ isLoading' = TRUE
    /\ reqs' = [reqs EXCEPT ![i] = [IdleReq EXCEPT !.pc = "Submitted",
                                      !.origin = "home", !.url = newLinkUrl,
                                      !.captured = links]]
    /\ UNCHANGED <<db, clock, links, newLinkUrl, toasts, warned, activeFilter, homeGet, readVars, sanVars>>

\* handleSubmit: setIsLoading(true) and the POST, whose continuation closes
\* over the links of this render.
handleSubmit(i) ==
    /\ ~isLoading
    /\ NextReq(i)
    /\ newLinkUrl # ""
    /\ isLoading' = TRUE
    /\ reqs' = [reqs EXCEPT ![i] = [IdleReq EXCEPT !.pc = "Submitted",
                                      !.origin = "home", !.url = newLinkUrl,
                                      !.captured = links]]
    /\ UNCHANGED <<db, clock, links, newLinkUrl, toasts, warned, activeFilter, homeGet, readVars, sanVars>>

\* The POST resolved: the new link goes on top of the captured list, then the
\* success toast clears isLoading.
handleSubmit_resolve(i) ==
    /\ reqs[i].origin = "home" /\ reqs[i].settled = "no"
    /\ reqs[i].resp # <<>> /\ reqs[i].resp[1].status = 200
    /\ links' = <<reqs[i].resp[1].body>> \o reqs[i].captured
    /\ newLinkUrl' = ""
    /\ isLoading' = FALSE
    /\ toasts' = [toasts EXCEPT ![i] = Append(@, [kind |-> "success",
                                                  text |-> reqs[i].resp[1].body.title])]
    /\ reqs' = [reqs EXCEPT ![i].settled = "response"]
    /\ UNCHANGED <<db, clock, warned, activeFilter, homeGet, readVars, sanVars>>

\* An error path whose toast leaves isLoading as it is.
handleSubmit_reject_keeploading(i) ==
    /\ reqs[i].origin = "home" /\ reqs[i].settled = "no"
    /\ reqs[i].resp # <<>> /\ reqs[i].resp[1].status # 200
    /\ toasts' = [toasts EXCEPT ![i] = Append(@, [kind |-> "error",
                                                  text |-> reqs[i].resp[1].detail])]
    /\ reqs' = [reqs EXCEPT ![i].settled = "response"]
    /\ UNCHANGED <<db, clock, links, newLinkUrl, isLoading, warned, activeFilter, homeGet, readVars, sanVars>>

\* The POST was answered with an error: reject(detail), the error toast
\* clears isLoading.
handleSubmit_reject(i) ==
    /\ reqs[i].origin = "home" /\ reqs[i].settled = "no"
    /\ reqs[i].resp # <<>> /\ reqs[i].resp[1].status # 200
    /\ isLoading' = FALSE
    /\ toasts' = [toasts EXCEPT ![i] = Append(@, [kind |-> "error",
                                                  text |-> reqs[i].resp[1].detail])]
    /\ reqs' = [reqs EXCEPT ![i].settled = "response"]
    /\ UNCHANGED <<db, clock, links, newLinkUrl, warned, activeFilter, homeGet, readVars, sanVars>>

\* The POST got no response at all: reject("An error occurred.").
handleSubmit_noresponse(i) ==
    /\ reqs[i].origin = "home" /\ reqs[i].settled = "no"
    /\ isLoading' = FALSE
    /\ toasts' = [toasts EXCEPT ![i] = Append(@, [kind |-> "error",
                                                  text |-> "An error occurred."])]
    /\ reqs' = [reqs EXCEPT ![i].settled = "noresponse"]
    /\ UNCHANGED <<db, clock, links, newLinkUrl, warned, activeFilter, homeGet, readVars, sanVars>>

\* A click on a category button.
setActiveFilter(f) ==
    /\ f # activeFilter
    /\ activeFilter' = f
    /\ UNCHANGED <<backendVars, links, newLinkUrl, isLoading, toasts, warned, homeGet, readVars, sanVars>>

\* A filter that tests the category of the first link only.
filteredLinksByFirst(ls, f) ==
    IF f = "All" \/ ls = <<>> THEN ls
    ELSE IF ls[1].category = f THEN ls ELSE <<>>

\* filteredLinks: every link for "All", else the links of that category.
filteredLinks(ls, f) ==
    IF f = "All" THEN ls
    ELSE SelectSeq(ls, LAMBDA link : link.category = f)

\* --------------------------------------------------------------- ReadPage
\* GET /links/{id}: the row with that id, if the table has it.
HasRow(id) == \E k \in 1..Len(db) : db[k].id = id

getById(id) == db[CHOOSE k \in 1..Len(db) : db[k].id = id]

\* The route id changes: the effect runs fetchLink, which sets isLoading and
\* sends the GET; neither link nor error is reset, and a GET sent for an
\* earlier id stays outstanding.
fetchLink(id) ==
    /\ navs < MaxNav
    /\ id # rpId
    /\ navs' = navs + 1
    /\ rpId' = id
    /\ rpLoading' = TRUE
    /\ rpGets' = [rpGets EXCEPT ![id] = @ + 1]
    /\ rpCur' = "pending"
    /\ surface' = ReadPageRender(TRUE, rpError, rpLink)
    /\ UNCHANGED <<backendVars, homeVars, rpLink, rpError, sanVars>>

\* The outstanding GETs for an id that earlier route changes sent.
OlderGets(id) ==
    rpGets[id] - (IF id = rpId /\ rpCur = "pending" THEN 1 ELSE 0)

\* Whether the GET that settles can be the latest one, or an earlier one.
CanSettle(id, latest) ==
    IF latest THEN id = rpId /\ rpCur = "pending" ELSE OlderGets(id) > 0

\* A resolve that also saves the sanitized content over the stored one.
fetchLink_resolve_writeback(id, latest) ==
    /\ CanSettle(id, latest)
    /\ HasRow(id)
    /\ rpGets' = [rpGets EXCEPT ![id] = @ - 1]
    /\ rpCur' = IF latest THEN "ok" ELSE rpCur
    /\ rpLink' = getById(id)
    /\ rpLoading' = FALSE
    /\ surface' = ReadPageRender(FALSE, rpError, getById(id))
    /\ db' = [k \in 1..Len(db) |->
                IF db[k].id = id
                THEN [db[k] EXCEPT !.content = sanitize(db[k].content)]
                ELSE db[k]]
    /\ UNCHANGED <<reqs, clock, homeVars, rpId, rpError, navs, sanVars>>

\* A GET /links/{id} resolved: setLink(response.data), then setIsLoading(false),
\* whichever route the page is on by now.
fetchLink_resolve(id, latest) ==
    /\ CanSettle(id, latest)
    /\ HasRow(id)
    /\ rpGets' = [rpGets EXCEPT ![id] = @ - 1]
    /\ rpCur' = IF latest THEN "ok" ELSE rpCur
    /\ rpLink' = getById(id)
    /\ rpLoading' = FALSE
    /\ surface' = ReadPageRender(FALSE, rpError, getById(id))
    /\ UNCHANGED <<backendVars, homeVars, rpId, rpError, navs, sanVars>>

\* A GET /links/{id} failed (no such row, or no response): setError, then
\* setIsLoading(false), whichever route the page is on by now.
fetchLink_reject(id, latest) ==
    /\ CanSettle(id, latest)
    /\ rpGets' = [rpGets EXCEPT ![id] = @ - 1]
    /\ rpCur' = IF latest THEN "failed" ELSE rpCur
    /\ rpError' = "Failed to load the article. Please try again later."
    /\ rpLoading' = FALSE
    /\ surface' = ReadPageRender(FALSE, rpError', rpLink)
    /\ UNCHANGED <<backendVars, homeVars, rpId, rpLink, navs, sanVars>>

\* ------------------------------------------------------------------- next
\* The ingestion pipeline, with requests from any client.
NextIngest ==
    \/ \E i \in ReqIds, u \in Urls \cup BadUrls : post_links(i, u)
    \/ \E i \in ReqIds : add_link_fetch(i)
    \/ \E i \in ReqIds : add_link_extract(i)
    \/ \E i \in ReqIds : add_link_categorize(i)
    \/ \E i \in ReqIds : add_link_insert(i)

SpecIngest == Init /\ [][NextIngest]_vars

\* The Home page and the backend it talks to.
NextHome ==
    \/ \E i \in ReqIds : add_link_fetch(i)
    \/ \E i \in ReqIds : add_link_extract(i)
    \/ \E i \in ReqIds : add_link_categorize(i)
    \/ \E i \in ReqIds : add_link_insert(i)
    \/ get_links_handle
    \/ fetchLinks_resolve
    \/ fetchLinks_reject
    \/ \E u \in Urls \cup {""} : setNewLinkUrl(u)
    \/ handleSubmit_empty
    \/ \E i \in ReqIds : handleSubmit(i)
    \/ \E i \in ReqIds : handleSubmit_resolve(i)
    \/ \E i \in ReqIds : handleSubmit_reject(i)
    \/ \E i \in ReqIds : handleSubmit_noresponse(i)

SpecHome == Init /\ [][NextHome]_vars

\* The promise of a POST that was sent settles: with the response once the
\* backend has answered, or with an error.
FairHome ==
    /\ SpecHome
    /\ \A i \in ReqIds :
          WF_vars(handleSubmit_resolve(i) \/ handleSubmit_reject(i)
                      \/ handleSubmit_noresponse(i))

\* The reader view over a table that ingestions fill.
NextRead ==
    \/ \E i \in ReqIds, u \in Urls : post_links(i, u)
    \/ \E i \in ReqIds : add_link_fetch(i)
    \/ \E i \in ReqIds : add_link_extract(i)
    \/ \E i \in ReqIds : add_link_categorize(i)
    \/ \E i \in ReqIds : add_link_insert(i)
    \/ \E id \in ReqIds : fetchLink(id)
    \/ \E id \in ReqIds, latest \in BOOLEAN : fetchLink_resolve(id, latest)
    \/ \E id \in ReqIds, latest \in BOOLEAN : fetchLink_reject(id, latest)

SpecRead == Init /\ [][NextRead]_vars

\* ------------------------------------------ the sanitizer as a function
\* The harness grows an input fragment leaf by leaf, then applies sanitize.
Leaves == { Elem(t, as, <<>>) : t \in TagUniverse, as \in AttrSets }

InputAddLeaf ==
    /\ ~sanOut.done
    /\ Size(sanIn) < MaxNodes
    /\ \E d \in 0..MaxNodes, leaf \in Leaves :
          /\ CanAddLeaf(sanIn, d)
          /\ sanIn' = AddLeaf(sanIn, d, leaf)
    /\ UNCHANGED <<sanOut, backendVars, homeVars, readVars>>

ApplySanitize ==
    /\ ~sanOut.done
    /\ sanOut' = [done |-> TRUE, html |-> sanitize(sanIn)]
    /\ UNCHANGED <<sanIn, backendVars, homeVars, readVars>>

NextSan == InputAddLeaf \/ ApplySanitize

SpecSan == Init /\ [][NextSan]_vars

\* --------------------------------------------- the category filter
\* The categories of the links handed to the filter: two labels, and none
\* for a link stored without a category.
FilterCategories == {"Technology", "Other", NoneValue}

\* The lists the listing can hand to Home: n links, newest first.
LinkLists ==
    UNION { { [k \in 1..n |->
                 [id |-> n + 1 - k, created_at |-> n + 1 - k,
                  url |-> "https://example.com/a", title |-> "Example Domain",
                  content |-> <<>>, category |-> c[k]]] :
              c \in [1..n -> FilterCategories] } : n \in 0..MaxLinks }

InitFilter ==
    /\ reqs = [i \in ReqIds |-> IdleReq]
    /\ db = <<>>
    /\ clock = 1
    /\ links \in LinkLists
    /\ newLinkUrl = ""
    /\ isLoading = FALSE
    /\ toasts = [i \in ReqIds |-> <<>>]
    /\ warned = FALSE
    /\ activeFilter = "All"
    /\ homeGet = [stage |-> "done", data |-> links]
    /\ rpId = 0
    /\ rpLink = NoLink
    /\ rpLoading = TRUE
    /\ rpError = NoneValue
    /\ rpGets = [i \in ReqIds |-> 0]
    /\ rpCur = "none"
    /\ navs = 0
    /\ surface = ReadPageRender(TRUE, NoneValue, NoLink)
    /\ sanIn = <<>>
    /\ sanOut = [done |-> FALSE, html |-> <<>>]

NextFilter == \E f \in { CATEGORIES[k] : k \in 1..Len(CATEGORIES) } : setActiveFilter(f)

SpecFilter == InitFilter /\ [][NextFilter]_vars

\* ----------------------------------------------------------------- claims
Rows == { db[k] : k \in 1..Len(db) }

RECURSIVE SumInserts(_)
SumInserts(n) == IF n = 0 THEN 0 ELSE reqs[n].inserts + SumInserts(n - 1)

\* Whether a backend outcome is a label of the closed set.
ValidOutcome(o) == o.kind = "label" /\ o.label \in ClosedCategories

\* C1: every row of the table was inserted by a request of which the fetch,
\* the extraction and the categorization had completed, and carries a url, a
\* title, a content and a category; nothing else is ever in the table.
C1_FullyPopulated ==
    /\ \A k \in 1..Len(db) :
          /\ db[k].id = k
          /\ db[k].url \in Urls
          /\ db[k].title \notin {NoneValue, ""}
          /\ db[k].content # NoContent
          /\ db[k].category # NoneValue
    /\ \A i \in ReqIds :
          reqs[i].inserts > 0 =>
              /\ reqs[i].fetches >= 1 /\ reqs[i].failure = NoFailure
              /\ reqs[i].extracted
              /\ reqs[i].classifyCalls >= 1
    /\ Len(db) = SumInserts(MaxReqs)

C1_Witness ==
    \E r \in Rows :
        /\ r.title = "[no-title]" /\ r.content = <<>> /\ r.category = "Other"
        /\ \E q \in Rows : q.title = "Example Domain" /\ q.category = "Technology"

\* C2: an ingestion whose fetch failed inserts nothing, is answered with
\* exactly one error, which carries the cause of the fetch failure, the Home
\* page shows exactly one error toast for it, with that cause when the answer
\* reached it, and no link without an id is ever in a response body that the
\* Home page uses or in its list.
C2_FetchFailure ==
    /\ \A i \in ReqIds :
          reqs[i].failure \in FetchFailures =>
              /\ reqs[i].pc = "Failed"
              /\ reqs[i].inserts = 0
              /\ reqs[i].resp = <<Http500(FetchErrorDetail(reqs[i].failure))>>
              /\ reqs[i].settled = "no" => toasts[i] = <<>>
              /\ reqs[i].settled = "response" =>
                    toasts[i] = <<[kind |-> "error",
                                   text |-> FetchErrorDetail(reqs[i].failure)]>>
              /\ reqs[i].settled = "noresponse" =>
                    toasts[i] = <<[kind |-> "error", text |-> "An error occurred."]>>
    /\ Len(db) = SumInserts(MaxReqs)
    /\ \A k \in 1..Len(links) : links[k].id >= 1 /\ links[k] \in Rows
    /\ \A k \in 1..Len(db) : db[k].id >= 1

C2_Witness ==
    \E i \in ReqIds :
        /\ reqs[i].failure = [kind |-> "status", code |-> 404]
        /\ reqs[i].settled = "response"
        /\ Len(db) = 1
        /\ Len(links) = 1

\* C3: a request fails only because its fetch failed: a request whose fetch
\* succeeded is never failed, whatever the extraction found and whatever the
\* classification backend did.
C3_OnlyFetchAborts ==
    \A i \in ReqIds :
        reqs[i].pc = "Failed" =>
            /\ reqs[i].failure \in FetchFailures \cup {InvalidUrlFailure}
            /\ reqs[i].page = NoPage

\* C4: a request moves Submitted, Fetched, Extracted, Categorized, Persisted
\* one stage at a time, or from a stage to Failed; a row is inserted only by
\* the step Categorized -> Persisted; Persisted and Failed are left by no step.
StageAfter(pc) ==
    CASE pc = "Idle"        -> {"Submitted"}
      [] pc = "Submitted"   -> {"Fetched", "Failed"}
      [] pc = "Fetched"     -> {"Extracted", "Failed"}
      [] pc = "Extracted"   -> {"Categorized", "Failed"}
      [] pc = "Categorized" -> {"Persisted", "Failed"}
      [] OTHER              -> {}

C4_StageOrder ==
    [][ /\ \A i \in ReqIds :
             /\ reqs'[i].pc # reqs[i].pc => reqs'[i].pc \in StageAfter(reqs[i].pc)
             /\ reqs[i].pc \in {"Persisted", "Failed"} => reqs'[i] = reqs[i]
             /\ reqs[i].pc = "Failed" => reqs'[i].inserts = 0
        /\ db' # db =>
             /\ Len(db') = Len(db) + 1
             /\ \E i \in ReqIds :
                   reqs[i].pc = "Categorized" /\ reqs'[i].pc = "Persisted" ]_vars

C4_Witness ==
    \E i, j \in ReqIds :
        /\ reqs[i].pc = "Persisted" /\ reqs[i].fetches = 1 /\ reqs[i].extracted
        /\ reqs[i].classifyCalls = 1 /\ reqs[i].inserts = 1
        /\ reqs[j].pc = "Failed" /\ reqs[j].inserts = 0
        /\ Len(db) = 1

\* C5: whenever the reader view shows an article, the HTML on the page is
\* sanitize applied to the stored content of that link.
C5_RenderSanitized ==
    surface.view = "article" =>
        /\ HasRow(surface.id)
        /\ surface.html = sanitize(getById(surface.id).content)

C5_Witness ==
    /\ surface.view = "article"
    /\ HasJavascriptUri(getById(surface.id).content)
    /\ ~HasJavascriptUri(surface.html)
    /\ surface.html # getById(surface.id).content

\* C6: the output of sanitize holds no script element, no event-handler
\* attribute and no javascript: URI in href or src.
C6_SanitizeSafe ==
    sanOut.done =>
        /\ ~HasScript(sanOut.html)
        /\ ~HasEventHandler(sanOut.html)
        /\ ~HasJavascriptUri(sanOut.html)

C6_Witness ==
    /\ sanOut.done
    /\ HasScript(sanIn) /\ HasEventHandler(sanIn) /\ HasJavascriptUri(sanIn)
    /\ sanOut.html # <<>>

\* C7: sanitize applied to its own output gives that output back.
C7_SanitizeIdempotent ==
    sanOut.done => sanitize(sanOut.html) = sanOut.html

C7_Witness ==
    /\ sanOut.done
    /\ sanOut.html # sanIn
    /\ Size(sanOut.html) = MaxNodes
    /\ \E n \in NodesOf(sanOut.html) : n.attrs # {}

\* C8: the category of every row, and of every request that has been
\* categorized, is one of the eight labels, whatever the backend answered.
C8_ClosedCategory ==
    /\ \A k \in 1..Len(db) : db[k].category \in ClosedCategories
    /\ \A i \in ReqIds :
          reqs[i].pc = "Categorized" => reqs[i].category \in ClosedCategories
    /\ Cardinality(ClosedCategories) = 8

C8_Witness ==
    /\ \E i \in ReqIds :
          /\ reqs[i].pc = "Categorized"
          /\ reqs[i].outcome = [kind |-> "label", label |-> "Sports"]
          /\ reqs[i].category = "Other"
    /\ \E r \in Rows : r.category \in {"Other", "Technology"}

\* C9: when the backend is unreachable, times out or answers with a label
\* outside the closed set, classify gives Other and the request does not fail;
\* the backend is called at most once for a request.
C9_ClassifyFallback ==
    \A i \in ReqIds :
        /\ reqs[i].classifyCalls <= 1
        /\ reqs[i].classifyCalls = 1 => reqs[i].pc \in {"Categorized", "Persisted"}
        /\ (reqs[i].pc = "Categorized" /\ ~ValidOutcome(reqs[i].outcome)) =>
              reqs[i].category = "Other"
        /\ (reqs[i].pc = "Categorized" /\ ValidOutcome(reqs[i].outcome)) =>
              reqs[i].category = reqs[i].outcome.label

C9_Witness ==
    \E i, j \in ReqIds :
        /\ reqs[i].pc = "Categorized" /\ reqs[i].outcome.kind = "timeout"
        /\ reqs[i].category = "Other"
        /\ reqs[j].pc = "Categorized" /\ reqs[j].outcome.label = "All"
        /\ reqs[j].category = "Other"

\* C10: no step changes a row that is in the table, a step of the reader view
\* leaves the table as it is, and the content of a row is the fragment the
\* extraction produced, as it was.
C10_StoredContentKept ==
    [][ /\ Len(db') >= Len(db)
        /\ \A k \in 1..Len(db) : db'[k] = db[k]
        /\ readVars' # readVars => db' = db
        /\ Len(db') > Len(db) =>
              \E i \in ReqIds :
                  /\ reqs[i].pc = "Categorized" /\ reqs'[i].pc = "Persisted"
                  /\ db'[Len(db')].content = DocSummary(reqs[i].page) ]_vars

C10_Witness ==
    /\ surface.view = "article"
    /\ getById(surface.id).content = ImgOnerror
    /\ surface.html = <<Elem("img", {Attr("src", "x")}, <<>>)>>
    /\ navs = MaxNav

SortedDesc(rows) ==
    \A k, m \in 1..Len(rows) : k < m => rows[k].created_at >= rows[m].created_at

\* C12: whenever the backend answers GET /links, the answer holds every row
\* of the table exactly once, newest first.
C12_ListingOrder ==
    [][ (homeGet' # homeGet /\ homeGet'.stage = "answered") =>
            /\ SortedDesc(homeGet'.data)
            /\ Len(homeGet'.data) = Len(db)
            /\ \A k \in 1..Len(db) :
                  \E m \in 1..Len(db) : homeGet'.data[m] = db[k] ]_vars

C12_Witness ==
    /\ homeGet.stage = "answered"
    /\ Len(homeGet.data) = 2
    /\ homeGet.data[1].created_at > homeGet.data[2].created_at
    /\ homeGet.data[1] = db[2]

\* The positions of a list whose link has the category f.
Matching(ls, f) == { k \in 1..Len(ls) : ls[k].category = f }

\* C13: for the selected label, the filtered list holds exactly the links of
\* that category, each once, in the order they have in the list; for "All" it
\* is the list itself.
C13_FilterExact ==
    LET shown == filteredLinks(links, activeFilter)
    IN  IF activeFilter = "All" THEN shown = links
        ELSE /\ \A k \in 1..Len(shown) : shown[k].category = activeFilter
             /\ Len(shown) = Cardinality(Matching(links, activeFilter))
             /\ \A k \in Matching(links, activeFilter) :
                   \E m \in 1..Len(shown) : shown[m] = links[k]
             /\ \A a, b \in 1..Len(shown) :
                   a < b => \E ka, kb \in 1..Len(links) :
                               ka < kb /\ links[ka] = shown[a] /\ links[kb] = shown[b]

C13_Witness ==
    /\ activeFilter = "Other"
    /\ Len(links) = 3
    /\ links[1].category = "Other" /\ links[2].category = "Technology"
    /\ links[3].category = "Other"
    /\ filteredLinks(links, activeFilter) = <<links[1], links[3]>>

\* C14: the title of every row is a non-empty string, and a request whose
\* document has no title element, or an empty one, carries the title
\* "No title found" from the extraction on.
C14_TitleSentinel ==
    /\ \A k \in 1..Len(db) : db[k].title \notin {"", NoneValue}
    /\ \A i \in ReqIds :
          (reqs[i].pc \in {"Extracted", "Categorized"}
              /\ reqs[i].page.titleEl \in {"absent", "empty"}) =>
                 reqs[i].title = "No title found"

C16_RejectedBeforeFetch ==
    \A i \in ReqIds :
        (reqs[i].pc # "Idle" /\ reqs[i].url \in BadUrls) =>
            reqs[i].fetches = 0 /\ reqs[i].inserts = 0

\* C17: once the mount-time GET /links has been applied, the displayed list
\* holds the link of every POST of the page that was answered with 200 and
\* applied, and every link the GET returned.
C17_NoLinkDropped ==
    homeGet.stage = "done" =>
        /\ \A i \in ReqIds :
              (reqs[i].origin = "home" /\ reqs[i].settled = "response"
                  /\ reqs[i].resp[1].status = 200) =>
                     \E k \in 1..Len(links) : links[k] = reqs[i].resp[1].body
        /\ \A m \in 1..Len(homeGet.data) :
              \E k \in 1..Len(links) : links[k] = homeGet.data[m]

\* C18: after a route change, once no GET is outstanding and the GET of the
\* current route id was answered with its link, the page shows the article
\* of the current route id.
C18_CurrentArticleShown ==
    (navs >= 2 /\ rpCur = "ok" /\ \A id \in ReqIds : rpGets[id] = 0) =>
        surface.view = "article" /\ surface.id = rpId

\* The POSTs of the Home page that have not settled.
InFlight == { i \in ReqIds : reqs[i].origin = "home" /\ reqs[i].settled = "no" }

\* C19: at most one POST of the Home page is unsettled at any time, and
\* isLoading, which disables the input and the button, is true exactly while
\* there is one.
C19_OnePostInFlight ==
    /\ Cardinality(InFlight) <= 1
    /\ isLoading <=> InFlight # {}

C19_Witness ==
    /\ isLoading
    /\ InFlight = {2}
    /\ reqs[1].settled = "response"
    /\ reqs[2].pc = "Categorized"

====
